---- MODULE Spec2Model ----
(***************************************************************************)
(* A model of src/app.py (Zip -> GIF maker): the archive filter, the       *)
(* natural sort key, the "Build GIF" handler with its frame-load loop and  *)
(* boomerang, the frame loader and build_gif.                              *)
(*                                                                         *)
(* A file name is a sequence of one-character strings, so that the string  *)
(* operations of the code (startswith, "in", basename, rsplit, lower,      *)
(* re.findall, int) are computed character by character.                   *)
(*                                                                         *)
(* Three specifications share the definitions:                             *)
(*   Spec        the handler from the button press to the presentation; a  *)
(*               frame is identified by its entry name, and each load      *)
(*               either returns or raises;                                 *)
(*   SpecFilter  _is_valid_zip_image on one entry name;                    *)
(*   SpecGif     the load loop and build_gif on images, that is on their   *)
(*               mode, size and kinds of pixel, under every option.        *)
(***************************************************************************)
EXTENDS Integers, Sequences, FiniteSets

VARIABLES
    \* ---- the build handler (app.py 183-249)
    upload,          \* "none" | "notzip" | "zip": what st.file_uploader returned
    namelist,        \* zf.namelist(): the archive's entry names, in archive order
    order_desc,      \* order.startswith("Descending")
    reverse_frames,  \* the boomerang checkbox
    pc,              \* the handler's position
    names,           \* the local `names`
    li,              \* position of the `for n in names` loop (names already visited)
    frames,          \* the local `frames` (a frame is identified by its entry name)
    skipped,         \* the local `skipped`
    corrupt,         \* the names whose load_and_prepare_image call raised
    shown,           \* the st.* presentation calls made, in order
    encIn,           \* the list passed to build_gif (NotCalled before the call)
    gif_bytes,       \* the local `gif_bytes` (NoBytes until build_gif returns)
    loads,           \* number of load_and_prepare_image calls made
    \* ---- the archive filter on one name (app.py 26-36)
    fname,           \* the entry name under test
    fres,            \* "unset", or what _is_valid_zip_image returned: "yes" | "no"
    \* ---- loading the frames and build_gif, on images (app.py 44-132, 196-235)
    srcs,            \* the images stored under the sorted names
    bg_transparent,  \* "Preserve transparency": background is None, save_transparency
    palette,         \* "Palette/Quantize": to_palette
    target_width,    \* the width asked for (0: keep the original size)
    fit_mode,        \* "fit" | "stretch" | "none"
    gpc,             \* position in the load loop and in build_gif
    gi,              \* index of the running loop
    gframes,         \* the frames loaded, then given to build_gif
    normalized,      \* the local `normalized` of build_gif
    processed,       \* the local `processed` of build_gif
    gout             \* "none" | "ValueError" | "gif": what build_gif did

hvars == <<upload, namelist, order_desc, reverse_frames, pc, names, li, frames,
           skipped, corrupt, shown, encIn, gif_bytes, loads>>
fvars == <<fname, fres>>
gvars == <<srcs, bg_transparent, palette, target_width, fit_mode, gpc, gi, gframes,
           normalized, processed, gout>>
vars == <<hvars, fvars, gvars>>

(***************************************************************************)
(* Characters and strings                                                  *)
(***************************************************************************)
Digits == <<"0", "1", "2", "3", "4", "5", "6", "7", "8", "9">>
UpperCase == <<"A", "B", "C", "D", "E", "F", "G", "H", "I", "J", "K", "L", "M",
               "N", "O", "P", "Q", "R", "S", "T", "U", "V", "W", "X", "Y", "Z">>
LowerCase == <<"a", "b", "c", "d", "e", "f", "g", "h", "i", "j", "k", "l", "m",
               "n", "o", "p", "q", "r", "s", "t", "u", "v", "w", "x", "y", "z">>

IndexIn(c, tbl) == CHOOSE k \in 1..Len(tbl) : tbl[k] = c
IsIn(c, tbl) == \E k \in 1..Len(tbl) : tbl[k] = c

\* str.isdigit() of one ASCII character (the class \d of the regex)
IsDigitChar(c) == IsIn(c, Digits)

\* ord(c), for the ASCII characters the names use
Ord(c) ==
    IF IsIn(c, Digits) THEN 47 + IndexIn(c, Digits)
    ELSE IF IsIn(c, UpperCase) THEN 64 + IndexIn(c, UpperCase)
    ELSE IF IsIn(c, LowerCase) THEN 96 + IndexIn(c, LowerCase)
    ELSE IF c = "." THEN 46
    ELSE IF c = "/" THEN 47
    ELSE 95   \* "_"

\* str.lower() of one character
LowerChar(c) == IF IsIn(c, UpperCase) THEN LowerCase[IndexIn(c, UpperCase)] ELSE c

\* str.lower()
Lower(s) == [k \in 1..Len(s) |-> LowerChar(s[k])]

\* s.startswith(p)
StartsWith(s, p) == Len(p) <= Len(s) /\ SubSeq(s, 1, Len(p)) = p

\* s.endswith(p)
EndsWith(s, p) == Len(p) <= Len(s) /\ SubSeq(s, Len(s) - Len(p) + 1, Len(s)) = p

\* p in s
Contains(s, p) ==
    \E k \in 1..(Len(s) - Len(p) + 1) : SubSeq(s, k, k + Len(p) - 1) = p

\* position of the last occurrence of character c in s, 0 when there is none
LastIndexOf(s, c) ==
    IF \E k \in 1..Len(s) : s[k] = c
    THEN CHOOSE k \in 1..Len(s) : s[k] = c /\ \A m \in (k + 1)..Len(s) : s[m] # c
    ELSE 0

\* int(text) of a run of ASCII digits
RECURSIVE IntOf(_)
IntOf(s) ==
    IF s = <<>> THEN 0
    ELSE 10 * IntOf(SubSeq(s, 1, Len(s) - 1)) + (IndexIn(s[Len(s)], Digits) - 1)

\* a < b on two str values: lexicographic by code point
RECURSIVE StrLess(_, _)
StrLess(a, b) ==
    IF b = <<>> THEN FALSE
    ELSE IF a = <<>> THEN TRUE
    ELSE IF Ord(Head(a)) # Ord(Head(b)) THEN Ord(Head(a)) < Ord(Head(b))
    ELSE StrLess(Tail(a), Tail(b))

Reverse(s) == [k \in 1..Len(s) |-> s[Len(s) + 1 - k]]

(***************************************************************************)
(* natural_key (app.py 15-19)                                              *)
(***************************************************************************)
\* length of the maximal run of characters of one class that starts s
RECURSIVE RunLen(_, _)
RunLen(s, digit) ==
    IF s = <<>> \/ IsDigitChar(Head(s)) # digit THEN 0
    ELSE 1 + RunLen(Tail(s), digit)

\* re.findall(r"\d+|\D+", s): the maximal digit and non-digit runs, in order
RECURSIVE FindAllRuns(_)
FindAllRuns(s) ==
    IF s = <<>> THEN <<>>
    ELSE LET n == RunLen(s, IsDigitChar(Head(s)))
         IN  <<SubSeq(s, 1, n)>> \o FindAllRuns(SubSeq(s, n + 1, Len(s)))

\* one element of the key: int(text) if text.isdigit() else text.lower()
KeyToken(text) ==
    IF \A k \in 1..Len(text) : IsDigitChar(text[k])
    THEN [isInt |-> TRUE, n |-> IntOf(text), s |-> <<>>]
    ELSE [isInt |-> FALSE, n |-> 0, s |-> Lower(text)]

natural_key(s) ==
    LET runs == FindAllRuns(s)
    IN  [k \in 1..Len(runs) |-> KeyToken(runs[k])]

(***************************************************************************)
(* Python's comparison of two keys (lists of int and str), as list.sort    *)
(* uses it: "T", "F", or "E" when it raises TypeError.                     *)
(***************************************************************************)
\* x < y on two list items: int < int, str < str, TypeError otherwise
ItemLess(x, y) ==
    IF x.isInt /\ y.isInt THEN (IF x.n < y.n THEN "T" ELSE "F")
    ELSE IF ~x.isInt /\ ~y.isInt THEN (IF StrLess(x.s, y.s) THEN "T" ELSE "F")
    ELSE "E"

\* a < b on two lists: the first position where the items are not equal
\* (an int never equals a str) decides; without one, the shorter list is less
ListLess(a, b) ==
    LET m == IF Len(a) < Len(b) THEN Len(a) ELSE Len(b)
        D == {k \in 1..m : a[k] # b[k]}
    IN  IF D = {} THEN (IF Len(a) < Len(b) THEN "T" ELSE "F")
        ELSE LET d == CHOOSE k \in D : \A j \in D : k <= j
             IN  ItemLess(a[d], b[d])

(***************************************************************************)
(* names.sort(key=natural_key, reverse=...) (app.py 193): a stable sort    *)
(* that only asks key(x) < key(y).  A result is [ok, list]; ok = FALSE     *)
(* when a comparison raised TypeError.                                     *)
(***************************************************************************)
\* the place of x in the sorted list srt: after the last element y, scanning
\* from the right, for which key(x) < key(y) is false; -1 when a comparison raises
RECURSIVE InsertPos(_, _, _)
InsertPos(srt, x, p) ==
    IF p = 0 THEN 0
    ELSE LET c == ListLess(natural_key(x), natural_key(srt[p]))
         IN  IF c = "E" THEN -1
             ELSE IF c = "T" THEN InsertPos(srt, x, p - 1)
             ELSE p

RECURSIVE StableSort(_, _)
StableSort(srt, rest) ==
    IF rest = <<>> THEN [ok |-> TRUE, list |-> srt]
    ELSE LET x == Head(rest)
             p == InsertPos(srt, x, Len(srt))
         IN  IF p = -1 THEN [ok |-> FALSE, list |-> <<>>]
             ELSE StableSort(SubSeq(srt, 1, p) \o <<x>> \o SubSeq(srt, p + 1, Len(srt)),
                             Tail(rest))

\* reverse=True: the list is reversed, sorted ascending and reversed again,
\* which is what keeps the descending sort stable
ListSort(xs, reverse) ==
    LET r == StableSort(<<>>, IF reverse THEN Reverse(xs) ELSE xs)
    IN  IF r.ok /\ reverse THEN [ok |-> TRUE, list |-> Reverse(r.list)] ELSE r

(***************************************************************************)
(* _is_valid_zip_image and list_images_in_zip (app.py 26-41)               *)
(***************************************************************************)
MACOSX == <<"_", "_", "M", "A", "C", "O", "S", "X">>

SUPPORTED_EXTS ==
    { <<".", "p", "n", "g">>, <<".", "j", "p", "g">>, <<".", "j", "p", "e", "g">>,
      <<".", "b", "m", "p">>, <<".", "g", "i", "f">>, <<".", "t", "i", "f">>,
      <<".", "t", "i", "f", "f">>, <<".", "w", "e", "b", "p">> }

\* os.path.basename(name): what follows the last "/"
basename(name) == SubSeq(name, LastIndexOf(name, "/") + 1, Len(name))

\* ("." + base.rsplit(".", 1)[-1].lower()) if "." in base else ""
ExtOf(base) ==
    IF LastIndexOf(base, ".") = 0 THEN <<>>
    ELSE <<".">> \o Lower(SubSeq(base, LastIndexOf(base, ".") + 1, Len(base)))

IsMacosxPath(name) ==
    StartsWith(name, MACOSX \o <<"/">>) \/ Contains(name, <<"/">> \o MACOSX \o <<"/">>)

\* is_valid_zip_image that skips __MACOSX only at the root of the archive
is_valid_zip_image_RootOnly(name) ==
    IF StartsWith(name, MACOSX \o <<"/">>) THEN FALSE
    ELSE IF StartsWith(basename(name), <<".", "_">>) \/ StartsWith(basename(name), <<".">>)
         THEN FALSE
    ELSE IF EndsWith(name, <<"/">>) THEN FALSE
    ELSE ExtOf(basename(name)) \in SUPPORTED_EXTS

is_valid_zip_image(name) ==
    IF IsMacosxPath(name) THEN FALSE
    ELSE IF StartsWith(basename(name), <<".", "_">>) \/ StartsWith(basename(name), <<".">>)
         THEN FALSE
    ELSE IF EndsWith(name, <<"/">>) THEN FALSE
    ELSE ExtOf(basename(name)) \in SUPPORTED_EXTS

list_images_in_zip(nl) == SelectSeq(nl, is_valid_zip_image)

(***************************************************************************)
(* The "Build GIF" handler (app.py 183-249)                                *)
(***************************************************************************)
MaxNames == 4

img2 == <<"i", "m", "g", "2", ".", "p", "n", "g">>
img10 == <<"i", "m", "g", "1", "0", ".", "p", "n", "g">>
IMG2 == <<"I", "M", "G", "2", ".", "p", "n", "g">>
img02 == <<"i", "m", "g", "0", "2", ".", "p", "n", "g">>
img2a == <<"i", "m", "g", "2", "a", ".", "p", "n", "g">>
n1a == <<"1", "a", ".", "p", "n", "g">>
a1 == <<"a", "1", ".", "p", "n", "g">>
notes == <<"n", "o", "t", "e", "s", ".", "t", "x", "t">>

\* the entry names the modelled archives are made of
NamePool == {img2, IMG2, img02, img10, n1a, a1, notes}

\* the archives: up to MaxNames distinct entries, in any order
Archives ==
    {s \in UNION {[1..k -> NamePool] : k \in 0..MaxNames} :
        \A a, b \in 1..Len(s) : a # b => s[a] # s[b]}

NoSupportedMsg == "No supported image files found in the zip."
BadZipMsg == "The uploaded file is not a valid ZIP archive."
UploadFirstMsg == "Please upload a .zip file first."
NoFramesMsg == "No frames to encode."
\* the text of the TypeError (Python names the two types in the order compared)
TypeErrorMsg == "'<' not supported between instances of 'int' and 'str'"
LargeMsg == "This is a very large animation. Consider lowering width or FPS."

\* one presentation call: the st.* function, its text, and the frames of the
\* GIF it carries (st.image, st.download_button), <<>> for the others
Call(fn, text, data) == [call |-> fn, text |-> text, data |-> data]

NotCalled == [called |-> FALSE, frames |-> <<>>]
NoBytes == [made |-> FALSE, frames |-> <<>>]

HInit ==
    /\ upload \in {"none", "notzip", "zip"}
    /\ namelist \in (IF upload = "zip" THEN Archives ELSE {<<>>})
    /\ order_desc \in (IF upload = "zip" THEN BOOLEAN ELSE {FALSE})
    /\ reverse_frames \in (IF upload = "zip" THEN BOOLEAN ELSE {FALSE})
    /\ pc = "start"
    /\ names = <<>>
    /\ li = 0
    /\ frames = <<>>
    /\ skipped = <<>>
    /\ corrupt = {}
    /\ shown = <<>>
    /\ encIn = NotCalled
    /\ gif_bytes = NoBytes
    /\ loads = 0

\* the handler is not running (the specifications of the other components)
HIdle ==
    /\ upload = "none"
    /\ namelist = <<>>
    /\ order_desc = FALSE
    /\ reverse_frames = FALSE
    /\ pc = "idle"
    /\ names = <<>>
    /\ li = 0
    /\ frames = <<>>
    /\ skipped = <<>>
    /\ corrupt = {}
    /\ shown = <<>>
    /\ encIn = NotCalled
    /\ gif_bytes = NoBytes
    /\ loads = 0

\* 184-185: nothing uploaded
NotUploaded ==
    /\ pc = "start" /\ upload = "none"
    /\ shown' = Append(shown, Call("st.warning", UploadFirstMsg, <<>>))
    /\ pc' = "done"
    /\ UNCHANGED <<upload, namelist, order_desc, reverse_frames, names, li, frames,
                   skipped, corrupt, encIn, gif_bytes, loads>>

\* 188, 246-247: bytes_to_zipfile raises BadZipFile
BadZip ==
    /\ pc = "start" /\ upload = "notzip"
    /\ shown' = Append(shown, Call("st.error", BadZipMsg, <<>>))
    /\ pc' = "done"
    /\ UNCHANGED <<upload, namelist, order_desc, reverse_frames, names, li, frames,
                   skipped, corrupt, encIn, gif_bytes, loads>>

\* Open without the `if not names` branch of 190-191
Open_NoEmptyCheck ==
    /\ pc = "start" /\ upload = "zip"
    /\ names' = list_images_in_zip(namelist)
    /\ shown' = shown
    /\ pc' = "sort"
    /\ UNCHANGED <<upload, namelist, order_desc, reverse_frames, li, frames,
                   skipped, corrupt, encIn, gif_bytes, loads>>

\* 188-192: the archive opens; the eligible names are listed
Open ==
    /\ pc = "start" /\ upload = "zip"
    /\ names' = list_images_in_zip(namelist)
    /\ IF names' = <<>>
       THEN /\ shown' = Append(shown, Call("st.error", NoSupportedMsg, <<>>))
            /\ pc' = "done"
       ELSE /\ shown' = shown
            /\ pc' = "sort"
    /\ UNCHANGED <<upload, namelist, order_desc, reverse_frames, li, frames,
                   skipped, corrupt, encIn, gif_bytes, loads>>

\* 193, 248-249: names.sort(...); a TypeError of the comparison leaves the try
\* block (names is not read again, so the model leaves it as it was)
Sort ==
    /\ pc = "sort"
    /\ LET r == ListSort(names, order_desc)
       IN  IF r.ok
           THEN /\ names' = r.list
                /\ shown' = shown
                /\ pc' = IF r.list = <<>> THEN "boomerang" ELSE "load"
           ELSE /\ names' = names
                /\ shown' = Append(shown, Call("st.exception", TypeErrorMsg, <<>>))
                /\ pc' = "done"
    /\ UNCHANGED <<upload, namelist, order_desc, reverse_frames, li, frames,
                   skipped, corrupt, encIn, gif_bytes, loads>>

\* 203-214: one iteration whose load_and_prepare_image call returns
LoadOk ==
    /\ pc = "load" /\ li < Len(names)
    /\ frames' = Append(frames, names[li + 1])
    /\ li' = li + 1
    /\ loads' = loads + 1
    /\ pc' = IF li + 1 = Len(names) THEN "boomerang" ELSE "load"
    /\ UNCHANGED <<upload, namelist, order_desc, reverse_frames, names, skipped,
                   corrupt, shown, encIn, gif_bytes>>

\* LoadRaise without the try/except of 204-216: the exception leaves the loop
\* and reaches the handler's `except Exception`
LoadRaise_Abort ==
    /\ pc = "load" /\ li < Len(names)
    /\ corrupt' = corrupt \cup {names[li + 1]}
    /\ loads' = loads + 1
    /\ shown' = Append(shown, Call("st.exception", "cannot identify image file", <<>>))
    /\ pc' = "done"
    /\ UNCHANGED <<upload, namelist, order_desc, reverse_frames, names, li, frames,
                   skipped, encIn, gif_bytes>>

\* 203-216: one iteration whose load_and_prepare_image call raises
LoadRaise ==
    /\ pc = "load" /\ li < Len(names)
    /\ skipped' = Append(skipped, names[li + 1])
    /\ corrupt' = corrupt \cup {names[li + 1]}
    /\ li' = li + 1
    /\ loads' = loads + 1
    /\ pc' = IF li + 1 = Len(names) THEN "boomerang" ELSE "load"
    /\ UNCHANGED <<upload, namelist, order_desc, reverse_frames, names, frames,
                   shown, encIn, gif_bytes>>

\* s[start:stop:-1] of Python for a negative start: the elements at the 0-based
\* positions start+len (at least -1), start+len-1, ..., stop+1 (stop = -1 stands
\* for an omitted stop: down to position 0)
SliceBack(s, start, stop) ==
    LET n == Len(s)
        first == IF start + n < 0 THEN -1 ELSE start + n
        cnt == IF first > stop THEN first - stop ELSE 0
    IN  [k \in 1..cnt |-> s[(first - (k - 1)) + 1]]

\* Boomerang with the slice frames[-2::-1], which appends frames[0] again
Boomerang_KeepFirst ==
    /\ pc = "boomerang"
    /\ frames' = IF reverse_frames /\ Len(frames) > 1
                 THEN frames \o SliceBack(frames, -2, -1)
                 ELSE frames
    /\ pc' = "encode"
    /\ UNCHANGED <<upload, namelist, order_desc, reverse_frames, names, li, skipped,
                   corrupt, shown, encIn, gif_bytes, loads>>

\* 218-219: frames + frames[-2:0:-1]
Boomerang ==
    /\ pc = "boomerang"
    /\ frames' = IF reverse_frames /\ Len(frames) > 1
                 THEN frames \o SliceBack(frames, -2, 0)
                 ELSE frames
    /\ pc' = "encode"
    /\ UNCHANGED <<upload, namelist, order_desc, reverse_frames, names, li, skipped,
                   corrupt, shown, encIn, gif_bytes, loads>>

\* 221-245, 248-249: the pixel advisory (the frames' sizes are not part of this
\* view, so it may or may not be shown), build_gif, and either its ValueError
\* on an empty list (86-89) or the presentation of the GIF
Encode ==
    /\ pc = "encode"
    /\ encIn' = [called |-> TRUE, frames |-> frames]
    /\ \E large \in (IF frames = <<>> THEN {FALSE} ELSE BOOLEAN) :
         LET adv == IF large THEN <<Call("st.warning", LargeMsg, <<>>)>> ELSE <<>>
         IN  IF frames = <<>>
             THEN /\ gif_bytes' = gif_bytes
                  /\ shown' = shown \o adv \o <<Call("st.exception", NoFramesMsg, <<>>)>>
             ELSE /\ gif_bytes' = [made |-> TRUE, frames |-> frames]
                  /\ shown' = shown \o adv \o
                        << Call("st.success", "GIF created!", <<>>),
                           Call("st.image", "Preview", frames),
                           Call("st.download_button", "Download GIF", frames) >>
    /\ pc' = "done"
    /\ UNCHANGED <<upload, namelist, order_desc, reverse_frames, names, li, frames,
                   skipped, corrupt, loads>>

FIdle == fname = <<>> /\ fres = "unset"

\* no image is being loaded or encoded
GIdle ==
    /\ srcs = <<>>
    /\ bg_transparent = FALSE
    /\ palette = FALSE
    /\ target_width = 0
    /\ fit_mode = "none"
    /\ gpc = "idle"
    /\ gi = 0
    /\ gframes = <<>>
    /\ normalized = <<>>
    /\ processed = <<>>
    /\ gout = "none"

Init == HInit /\ FIdle /\ GIdle

Next ==
    \/ NotUploaded /\ UNCHANGED <<fvars, gvars>>
    \/ BadZip /\ UNCHANGED <<fvars, gvars>>
    \/ Open /\ UNCHANGED <<fvars, gvars>>
    \/ Sort /\ UNCHANGED <<fvars, gvars>>
    \/ LoadOk /\ UNCHANGED <<fvars, gvars>>
    \/ LoadRaise /\ UNCHANGED <<fvars, gvars>>
    \/ Boomerang /\ UNCHANGED <<fvars, gvars>>
    \/ Encode /\ UNCHANGED <<fvars, gvars>>

Spec == Init /\ [][Next]_vars

(***************************************************************************)
(* Properties of the handler                                               *)
(***************************************************************************)
Range(s) == {s[k] : k \in 1..Len(s)}

\* the eligible names of the archive, in archive order
Eligible == list_images_in_zip(namelist)

\* the names of `names` whose load returned / raised, in the order of `names`
Decodable == LET ok(n) == n \notin corrupt IN SelectSeq(names, ok)
Failing == LET bad(n) == n \in corrupt IN SelectSeq(names, bad)

\* C2: per-frame decode failures never abort the batch: once the load loop has
\* started it visits every name; when it has ended, frames holds exactly the
\* decodable names and skipped exactly the failing names, both in the order of
\* the sorted names, and together they are as many as the eligible names.
C2_LoadLoopTotal ==
    /\ pc = "load" => li < Len(names) /\ loads = li /\ Len(frames) + Len(skipped) = li
    /\ (loads > 0 /\ pc # "load") => loads = Len(names)
    /\ pc = "boomerang" =>
          /\ li = Len(names)
          /\ frames = Decodable
          /\ skipped = Failing
          /\ Len(frames) + Len(skipped) = Len(Eligible)
    /\ pc \in {"encode", "done"} /\ loads > 0 => skipped = Failing

\* a failure in the middle of a batch of three: the loop went on
C2_Witness ==
    /\ pc = "boomerang" /\ Len(names) = 3
    /\ names[1] \notin corrupt /\ names[2] \in corrupt /\ names[3] \notin corrupt

\* C1: with F the loaded frame list (n frames), the list passed to the encoder
\* is F followed by F[n-2], ..., F[1] (0-based) when the boomerang flag is set
\* and n > 1: 2n-2 frames, no frame twice in a row, F[0] and F[n-1] once each.
\* Otherwise it is F unchanged.
C1_Boomerang ==
    encIn.called =>
        LET F == Decodable
            n == Len(F)
            E == encIn.frames
        IN  IF reverse_frames /\ n > 1
            THEN /\ Len(E) = 2 * n - 2
                 /\ \A k \in 1..n : E[k] = F[k]
                 /\ \A k \in 1..(n - 2) : E[n + k] = F[n - k]
                 /\ \A k \in 1..(Len(E) - 1) : E[k] # E[k + 1]
                 /\ Cardinality({k \in 1..Len(E) : E[k] = F[1]}) = 1
                 /\ Cardinality({k \in 1..Len(E) : E[k] = F[n]}) = 1
            ELSE E = F

\* four frames A, B, C, D were loaded and A, B, C, D, C, B is encoded
C1_Witness ==
    /\ encIn.called /\ reverse_frames /\ Len(Decodable) = 4
    /\ Len(encIn.frames) = 6
    /\ encIn.frames[5] = Decodable[3] /\ encIn.frames[6] = Decodable[2]

\* C3 (as claimed): when every eligible entry fails to decode, the build ends in
\* the empty-frame-list error, no GIF is made, and the error is presented
\* together with the list of skipped names, which holds all the eligible names.
C3_AllCorruptReported ==
    (pc = "done" /\ encIn.called /\ names # <<>> /\ Range(names) \subseteq corrupt) =>
        /\ ~gif_bytes.made
        /\ \E k \in 1..Len(shown) :
              shown[k].call = "st.exception" /\ shown[k].text = NoFramesMsg
        /\ Range(skipped) = Range(Eligible)
        /\ \E k \in 1..Len(shown) : shown[k].data = skipped

\* C8: when the archive opens and no entry passes the filter, the build stops
\* with the one error of 191, whose text is not that of the bad-archive error;
\* no frame is loaded, build_gif is not called, no bytes are produced.
C8_NoEligible ==
    (upload = "zip" /\ \A k \in 1..Len(namelist) : ~is_valid_zip_image(namelist[k])) =>
        /\ pc \in {"start", "done"}
        /\ pc = "done" => shown = <<Call("st.error", NoSupportedMsg, <<>>)>>
        /\ NoSupportedMsg # BadZipMsg
        /\ loads = 0
        /\ ~encIn.called
        /\ ~gif_bytes.made

\* an archive that holds only a .txt file
C8_Witness == pc = "done" /\ upload = "zip" /\ namelist = <<notes>>

(***************************************************************************)
(* Properties of the sort                                                  *)
(***************************************************************************)
\* the order of the keys the specification describes: at the first position
\* where the tokens differ, numbers by value and text lexicographically; tokens
\* of different type order neither way (the tie-break leaves them to the
\* original index)
KeyBefore(a, b) ==
    LET m == IF Len(a) < Len(b) THEN Len(a) ELSE Len(b)
        D == {k \in 1..m : a[k] # b[k]}
    IN  IF D = {} THEN Len(a) < Len(b)
        ELSE LET d == CHOOSE k \in D : \A j \in D : k <= j
             IN  IF a[d].isInt /\ b[d].isInt THEN a[d].n < b[d].n
                 ELSE IF ~a[d].isInt /\ ~b[d].isInt THEN StrLess(a[d].s, b[d].s)
                 ELSE FALSE

\* two keys with tokens of different type at one position
MixedTypes(a, b) ==
    \E k \in 1..(IF Len(a) < Len(b) THEN Len(a) ELSE Len(b)) : a[k].isInt # b[k].isInt

\* position of a name in the archive
ArchivePos(n) == CHOOSE k \in 1..Len(namelist) : namelist[k] = n

SortRaised == \E k \in 1..Len(shown) : shown[k].text = TypeErrorMsg

\* names is ordered by key in the direction asked for, equal or unordered keys
\* in archive order
OrderedByKey ==
    \A a, b \in 1..Len(names) : a < b =>
        LET ka == natural_key(names[a])
            kb == natural_key(names[b])
        IN  /\ IF order_desc THEN ~KeyBefore(ka, kb) ELSE ~KeyBefore(kb, ka)
            /\ (~KeyBefore(ka, kb) /\ ~KeyBefore(kb, ka)) =>
                   ArchivePos(names[a]) < ArchivePos(names[b])

\* C5 (as claimed): the key is the sequence of digit runs (as integers) and
\* lowercased non-digit runs, key("img2.png") < key("img10.png") and
\* key("img2.png") < key("img2a.png"); sorting the eligible names by it,
\* ascending or descending, yields a permutation of them ordered by key in which
\* names with equal keys keep their archive order.
C5_SortedStable ==
    /\ natural_key(img10) = << [isInt |-> FALSE, n |-> 0, s |-> <<"i", "m", "g">>],
                               [isInt |-> TRUE, n |-> 10, s |-> <<>>],
                               [isInt |-> FALSE, n |-> 0, s |-> <<".", "p", "n", "g">>] >>
    /\ KeyBefore(natural_key(img2), natural_key(img10))
    /\ KeyBefore(natural_key(img2), natural_key(img2a))
    /\ (pc \notin {"start", "sort"} /\ upload = "zip" /\ Eligible # <<>>) =>
          /\ ~SortRaised
          /\ Range(names) = Range(Eligible) /\ Len(names) = Len(Eligible)
          /\ OrderedByKey

\* C6 (as claimed): when two eligible names have keys with tokens of different
\* type at one position, the comparison falls back to the tie-break, the sort
\* completes with an ordered list (such pairs in archive order) and the build
\* does not end in an error of the sort.
C6_SortTotal ==
    (/\ pc = "done" /\ upload = "zip"
     /\ \E a, b \in Range(Eligible) : MixedTypes(natural_key(a), natural_key(b))) =>
        /\ ~SortRaised
        /\ encIn.called
        /\ OrderedByKey

\* Where no comparison raises, names.sort yields the eligible names ordered by
\* key, equal keys in archive order, ascending and descending.
SortedUnlessRaised ==
    (pc = "load" /\ li = 0) =>
        /\ Range(names) = Range(Eligible) /\ Len(names) = Len(Eligible)
        /\ OrderedByKey

\* The sort raises exactly when the eligible names mix a digit-first and a
\* text-first name.
RaisesIffMixed ==
    ((pc = "load" /\ li = 0) \/ (pc = "done" /\ names # <<>> /\ ~encIn.called)) =>
        (SortRaised <=>
            \E a, b \in Range(Eligible) : MixedTypes(natural_key(a), natural_key(b)))

(***************************************************************************)
(* The archive filter on its own: _is_valid_zip_image applied to one name  *)
(***************************************************************************)
MaxPieces == 5

PathPieces == {MACOSX, <<"/">>, <<".">>, <<"_">>, <<"a">>}

RECURSIVE Flatten(_)
Flatten(ps) == IF ps = <<>> THEN <<>> ELSE Head(ps) \o Flatten(Tail(ps))

\* every concatenation of up to MaxPieces pieces
Stems == {Flatten(ps) : ps \in UNION {[1..k -> PathPieces] : k \in 0..MaxPieces}}

FewStems == {<<>>, <<"a">>, <<"a", "/", "a">>, <<".">>, <<"a", ".", "a">>}

FewSuffixes == {<<>>, <<".", "p", "n", "g">>, <<".", "P", "N", "G">>, <<".", "t", "x", "t">>}

Suffixes ==
    SUPPORTED_EXTS \cup
    { <<>>, <<".", "P", "N", "G">>, <<".", "J", "p", "E", "g">>, <<".", "T", "I", "F", "F">>,
      <<".", "t", "x", "t">>, <<".", "p", "n">>, <<".", "p", "n", "g", "x">>,
      <<"p", "n", "g">>, <<".", "p", "n", "g", "/">>, <<".", "p", "n", "g", ".">> }

FilterNames ==
    {st \o su : st \in Stems, su \in FewSuffixes} \cup
    {st \o su : st \in FewStems, su \in Suffixes}

FInit == fname \in FilterNames /\ fres = "unset"

\* 26-36: one call of _is_valid_zip_image
FilterStep ==
    /\ fres = "unset"
    /\ fres' = IF is_valid_zip_image(fname) THEN "yes" ELSE "no"
    /\ UNCHANGED <<fname, hvars, gvars>>

InitFilter == HIdle /\ FInit /\ GIdle

NextFilter == FilterStep

SpecFilter == InitFilter /\ [][NextFilter]_vars

\* name.split("/"): the path's components, the last one being the base name
RECURSIVE SplitPath(_, _)
SplitPath(s, cur) ==
    IF s = <<>> THEN <<cur>>
    ELSE IF Head(s) = "/" THEN <<cur>> \o SplitPath(Tail(s), <<>>)
    ELSE SplitPath(Tail(s), Append(cur, Head(s)))

ClaimedExts ==
    { <<"p", "n", "g">>, <<"j", "p", "g">>, <<"j", "p", "e", "g">>, <<"b", "m", "p">>,
      <<"g", "i", "f">>, <<"t", "i", "f">>, <<"t", "i", "f", "f">>, <<"w", "e", "b", "p">> }

\* the eligibility the specification states, on the path's components
ClaimedEligible(name) ==
    LET comps == SplitPath(name, <<>>)
        base == comps[Len(comps)]
        dots == {k \in 1..Len(base) : base[k] = "."}
    IN  /\ \A k \in 1..(Len(comps) - 1) : comps[k] # MACOSX
        /\ ~(base # <<>> /\ base[1] = ".")
        /\ ~(name # <<>> /\ name[Len(name)] = "/")
        /\ dots # {}
        /\ LET d == CHOOSE k \in dots : \A j \in dots : j <= k
           IN  Lower(SubSeq(base, d + 1, Len(base))) \in ClaimedExts

\* C4: an entry is eligible if and only if it is not under a __MACOSX directory
\* (at the root or nested), its base name does not begin with a dot, it does not
\* end with "/", and the lowercased text after the last dot of its base name is
\* one of the eight extensions; __MACOSX/a.png, ._a.png and a/ are excluded and
\* a.PNG is included.
C4_FilterIff ==
    /\ fres # "unset" => (fres = "yes" <=> ClaimedEligible(fname))
    /\ ~is_valid_zip_image(MACOSX \o <<"/", "a", ".", "p", "n", "g">>)
    /\ ~is_valid_zip_image(<<".", "_", "a", ".", "p", "n", "g">>)
    /\ ~is_valid_zip_image(<<"a", "/">>)
    /\ is_valid_zip_image(<<"a", ".", "P", "N", "G">>)

\* a supported image under a nested __MACOSX directory was refused
C4_Witness ==
    fres = "no" /\ fname = <<"a", "/">> \o MACOSX \o <<"/", "a", ".", "P", "N", "G">>

(***************************************************************************)
(* Images.  A stored image is [mode, marker, w, h, px]: its Pillow mode,   *)
(* whether im.info holds "transparency", its size, and the kinds of pixel  *)
(* it holds, a kind being [col, a]: a colour and an alpha of 0 or 255.     *)
(* A frame is [id, mode, w, h, px, via, info_trns, midx]: id is the place  *)
(* of its source in srcs, via tells whether lines 110-117 produced it,     *)
(* info_trns is info["transparency"] as build_gif sets it (-1: not set),   *)
(* midx the palette index its matte-coloured pixels carry (-1: none).      *)
(***************************************************************************)
MaxFrames == 2

Opaque == [col |-> "c1", a |-> 255]
OpaqueMagenta == [col |-> "magenta", a |-> 255]
Clear == [col |-> "c2", a |-> 0]

Source(mode, marker, w, h, px) ==
    [mode |-> mode, marker |-> marker, w |-> w, h |-> h, px |-> px]

\* the stored images the modelled archives are made of
SourcePool ==
    { Source("RGB", FALSE, 2, 2, {Opaque}),
      Source("RGBA", FALSE, 2, 2, {Clear, Opaque}),
      Source("RGBA", FALSE, 1, 2, {Clear, OpaqueMagenta}),
      Source("P", TRUE, 2, 1, {Clear, Opaque}),
      Source("LA", FALSE, 1, 1, {Opaque}),
      Source("RGB", TRUE, 1, 1, {Opaque}),
      Source("P", FALSE, 2, 2, {Opaque, OpaqueMagenta}) }

\* round(num / den) of Python 3: to the nearest integer, halves to the even one
RoundHalfEven(num, den) ==
    LET q == num \div den
        r == num % den
    IN  IF 2 * r < den THEN q
        ELSE IF 2 * r > den THEN q + 1
        ELSE IF q % 2 = 0 THEN q ELSE q + 1

\* 56-65: the mode after the conversion, and the pixels after flattening
ConvertImage(src, id) ==
    IF src.mode \in {"RGBA", "LA"} \/ (src.mode = "P" /\ src.marker)
    THEN IF bg_transparent
         THEN [id |-> id, mode |-> "RGBA", w |-> src.w, h |-> src.h, px |-> src.px,
               via |-> FALSE, info_trns |-> -1, midx |-> -1]
         ELSE [id |-> id, mode |-> "RGB", w |-> src.w, h |-> src.h,
               px |-> {[col |-> IF c.a = 0 THEN "background" ELSE c.col, a |-> 255] :
                          c \in src.px},
               via |-> FALSE, info_trns |-> -1, midx |-> -1]
    ELSE [id |-> id, mode |-> "RGB", w |-> src.w, h |-> src.h,
          px |-> {[col |-> c.col, a |-> 255] : c \in src.px},
          via |-> FALSE, info_trns |-> -1, midx |-> -1]

\* 67-76: ImageOps.contain(im, (target_width, 10**9)) scales to the width asked
\* for and keeps the aspect ratio; "stretch" does the same unless the width
\* already matches, with a height of at least 1
ResizeImage(im) ==
    IF target_width > 0 /\ fit_mode = "fit"
    THEN [im EXCEPT !.w = target_width, !.h = RoundHalfEven(im.h * target_width, im.w)]
    ELSE IF target_width > 0 /\ fit_mode = "stretch" /\ im.w # target_width
    THEN LET nh == RoundHalfEven(im.h * target_width, im.w)
         IN  [im EXCEPT !.w = target_width, !.h = IF nh < 1 THEN 1 ELSE nh]
    ELSE im

\* 78-81: im.convert("P", palette=ADAPTIVE, colors=256)
PaletteImage(im) == IF palette THEN [im EXCEPT !.mode = "P"] ELSE im

\* 44-83
load_and_prepare_image(src, id) == PaletteImage(ResizeImage(ConvertImage(src, id)))

Colors == 255
TransparencyIndex == 255

\* 110-117: the frame quantized over the matte, its matte-coloured pixels at
\* palette index m, info["transparency"] set to 255
QuantizeOverMatte(im, m) ==
    [im EXCEPT !.mode = "P", !.via = TRUE, !.info_trns = TransparencyIndex, !.midx = m]

\* The indices Image.convert("P", colors=255) may give the matte colour: one of
\* 0 .. Colors-1, of which the model takes the lowest and the highest.
MatteIndices == {0, Colors - 1}

GInit ==
    /\ srcs \in UNION {[1..k -> SourcePool] : k \in 1..MaxFrames}
    /\ bg_transparent \in BOOLEAN
    /\ palette \in BOOLEAN
    /\ target_width \in {0, 2}
    /\ fit_mode \in (IF target_width = 0 THEN {"fit"} ELSE {"fit", "stretch", "none"})
    /\ gpc = "load"
    /\ gi = 0
    /\ gframes = <<>>
    /\ normalized = <<>>
    /\ processed = <<>>
    /\ gout = "none"

\* 203-214: load_and_prepare_image returns the frame
GLoadOk ==
    /\ gpc = "load" /\ gi < Len(srcs)
    /\ gframes' = Append(gframes, load_and_prepare_image(srcs[gi + 1], gi + 1))
    /\ gi' = gi + 1
    /\ gpc' = IF gi + 1 = Len(srcs) THEN "build" ELSE "load"
    /\ UNCHANGED <<srcs, bg_transparent, palette, target_width, fit_mode, normalized,
                   processed, gout>>

\* 203-216: the stored bytes do not decode; the entry is skipped
GLoadRaise ==
    /\ gpc = "load" /\ gi < Len(srcs)
    /\ gi' = gi + 1
    /\ gpc' = IF gi + 1 = Len(srcs) THEN "build" ELSE "load"
    /\ UNCHANGED <<srcs, bg_transparent, palette, target_width, fit_mode, gframes,
                   normalized, processed, gout>>

\* 86-89: build_gif is entered; an empty list raises ValueError
BuildStart ==
    /\ gpc = "build"
    /\ IF gframes = <<>>
       THEN gout' = "ValueError" /\ gpc' = "done"
       ELSE gout' = gout /\ gpc' = "normalize"
    /\ gi' = 0
    /\ UNCHANGED <<srcs, bg_transparent, palette, target_width, fit_mode, gframes,
                   normalized, processed>>

\* Normalize that compares only the widths
Normalize_WidthOnly ==
    /\ gpc = "normalize" /\ gi < Len(gframes)
    /\ LET im == gframes[gi + 1]
           w0 == gframes[1].w
           h0 == gframes[1].h
       IN  normalized' = Append(normalized,
                                IF im.w # w0 THEN [im EXCEPT !.w = w0, !.h = h0] ELSE im)
    /\ gi' = IF gi + 1 = Len(gframes) THEN 0 ELSE gi + 1
    /\ gpc' = IF gi + 1 = Len(gframes) THEN "convert" ELSE "normalize"
    /\ UNCHANGED <<srcs, bg_transparent, palette, target_width, fit_mode, gframes,
                   processed, gout>>

\* 97-105: one iteration of the loop that sizes the frames to the first one
Normalize ==
    /\ gpc = "normalize" /\ gi < Len(gframes)
    /\ LET im == gframes[gi + 1]
           w0 == gframes[1].w
           h0 == gframes[1].h
       IN  normalized' = Append(normalized,
                                IF <<im.w, im.h>> # <<w0, h0>>
                                THEN [im EXCEPT !.w = w0, !.h = h0]
                                ELSE im)
    /\ gi' = IF gi + 1 = Len(gframes) THEN 0 ELSE gi + 1
    /\ gpc' = IF gi + 1 = Len(gframes) THEN "convert" ELSE "normalize"
    /\ UNCHANGED <<srcs, bg_transparent, palette, target_width, fit_mode, gframes,
                   processed, gout>>

\* 108-117: one iteration on an RGBA frame with save_transparency
ConvertMatte ==
    /\ gpc = "convert" /\ gi < Len(normalized)
    /\ bg_transparent /\ normalized[gi + 1].mode = "RGBA"
    /\ \E m \in MatteIndices :
          processed' = Append(processed, QuantizeOverMatte(normalized[gi + 1], m))
    /\ gi' = gi + 1
    /\ gpc' = IF gi + 1 = Len(normalized) THEN "save" ELSE "convert"
    /\ UNCHANGED <<srcs, bg_transparent, palette, target_width, fit_mode, gframes,
                   normalized, gout>>

\* 108-109, 118-119: one iteration on any other frame
ConvertKeep ==
    /\ gpc = "convert" /\ gi < Len(normalized)
    /\ ~(bg_transparent /\ normalized[gi + 1].mode = "RGBA")
    /\ processed' = Append(processed, normalized[gi + 1])
    /\ gi' = gi + 1
    /\ gpc' = IF gi + 1 = Len(normalized) THEN "save" ELSE "convert"
    /\ UNCHANGED <<srcs, bg_transparent, palette, target_width, fit_mode, gframes,
                   normalized, gout>>

\* 121-132: processed[0].save(..., append_images=processed[1:])
Save ==
    /\ gpc = "save"
    /\ gout' = "gif"
    /\ gpc' = "done"
    /\ UNCHANGED <<srcs, bg_transparent, palette, target_width, fit_mode, gi, gframes,
                   normalized, processed>>

InitGif == HIdle /\ FIdle /\ GInit

NextGif ==
    \/ GLoadOk /\ UNCHANGED <<hvars, fvars>>
    \/ GLoadRaise /\ UNCHANGED <<hvars, fvars>>
    \/ BuildStart /\ UNCHANGED <<hvars, fvars>>
    \/ Normalize /\ UNCHANGED <<hvars, fvars>>
    \/ ConvertMatte /\ UNCHANGED <<hvars, fvars>>
    \/ ConvertKeep /\ UNCHANGED <<hvars, fvars>>
    \/ Save /\ UNCHANGED <<hvars, fvars>>

SpecGif == InitGif /\ [][NextGif]_vars

(***************************************************************************)
(* Properties of the loader and build_gif                                  *)
(***************************************************************************)
\* C10: every frame handed to the encoder has the width and height of the
\* first frame given to build_gif; a frame that already matches leaves the
\* sizing loop unchanged, another one resized; none is dropped, so the encoded
\* frames are as many as the frames given and in their order.
C10_Geometry ==
    /\ gpc \in {"convert", "save", "done"} /\ gframes # <<>> =>
          /\ Len(normalized) = Len(gframes)
          /\ \A k \in 1..Len(gframes) :
                /\ normalized[k].id = gframes[k].id
                /\ normalized[k].w = gframes[1].w /\ normalized[k].h = gframes[1].h
                /\ (gframes[k].w = gframes[1].w /\ gframes[k].h = gframes[1].h)
                      => normalized[k] = gframes[k]
                /\ [normalized[k] EXCEPT !.w = 0, !.h = 0] = [gframes[k] EXCEPT !.w = 0, !.h = 0]
    /\ gout = "gif" =>
          /\ Len(processed) = Len(gframes)
          /\ \A k \in 1..Len(gframes) :
                /\ processed[k].id = gframes[k].id
                /\ processed[k].w = gframes[1].w /\ processed[k].h = gframes[1].h

\* two frames of the same width and different heights were encoded
C10_Witness ==
    /\ gout = "gif" /\ Len(gframes) = 2
    /\ gframes[2].w = gframes[1].w /\ gframes[2].h # gframes[1].h
    /\ processed[2].h = gframes[1].h

\* the source has an alpha channel or a transparency marker
HasAlphaOrMarker(src) == src.mode \in {"RGBA", "LA"} \/ src.marker

\* C7 (as claimed): with preserve_transparency, every loaded frame whose source
\* has an alpha channel or a transparency marker passes through lines 110-117
\* before it is encoded, whatever the other options are (palette on or off);
\* every other frame is encoded as it was loaded and sized.
C7_Routing ==
    gout = "gif" =>
        \A k \in 1..Len(processed) :
            IF bg_transparent /\ HasAlphaOrMarker(srcs[processed[k].id])
            THEN processed[k].via
            ELSE ~processed[k].via /\ processed[k] = normalized[k]

\* the pixels a player shows as transparent: those whose palette index is the
\* transparency index of the frame (the pixels that are not matte-coloured have
\* another index below Colors)
TransparentOut(q) ==
    {c \in q.px : (c.a = 0 \/ c.col = "magenta") /\ q.midx = q.info_trns}

\* C9 (as claimed): in a frame that passed through lines 110-117 the composite is
\* quantized to at most 255 colours, the transparency index written (255) is the
\* palette index of the matte-substituted pixels, and exactly the pixels that
\* were transparent are transparent in the output.
C9_TransparencyIndex ==
    \A k \in 1..Len(processed) :
        processed[k].via =>
            /\ processed[k].info_trns = 255
            /\ processed[k].midx < Colors
            /\ processed[k].midx = processed[k].info_trns
            /\ TransparentOut(processed[k]) = {c \in processed[k].px : c.a = 0}

====
